---- MODULE Spec2Model ----
(***************************************************************************)
(* A model of mutk's relationship-graph compiler                           *)
(* (src/src/lib/relationship_graph.cpp): RelationshipGraph::Construct and  *)
(* the stages it runs (builder, edge-length scaler, simplifier, pruner,    *)
(* finalizer) followed by peeling_order (moralization, min-fill            *)
(* elimination, junction tree).                                            *)
(*                                                                         *)
(* Vertex descriptors are 1-based here (the code's vertex i is i+1), so    *)
(* the order of indices, which is all the code compares, is the code's.    *)
(* The "no vertex" value -1 of finalize's map_in_to_out is 0 here.         *)
(***************************************************************************)
EXTENDS Integers, Sequences, FiniteSets, TLC

VARIABLES
    pc,                    \* position inside Construct / peeling_order
    args,                  \* the arguments of the call of Construct
    inheritance_model_,    \* RelationshipGraph::inheritance_model_
    graph,                 \* Construct: the local graph the stages work on
    rev_topo_order,        \* simplify: rev_topo_order
    graph_,                \* RelationshipGraph::graph_ (the finalized graph)
    neighbors,             \* peeling_order: neighbors[v], a flat_set per vertex
    priority_queue,        \* peeling_order: the heap's records {first, second}
    handles,               \* peeling_order: vertices whose handle is not null
    elim_order,            \* peeling_order: elim_order
    cliques,               \* peeling_order: cliques
    is_intersection_node,  \* peeling_order: is_intersection_node
    junction_tree,         \* peeling_order: the junction tree's edges
    jt_done,               \* peeling_order: iterations of the reverse loop done
    fault                  \* how the process died, "none" while it is alive

peel_vars == <<neighbors, priority_queue, handles, elim_order, cliques,
               is_intersection_node, junction_tree, jt_done>>

pipe_vars == <<args, inheritance_model_, graph, rev_topo_order>>

vars == <<pc, args, inheritance_model_, graph, rev_topo_order, graph_, neighbors, priority_queue, handles, elim_order, cliques,
          is_intersection_node, junction_tree, jt_done, fault>>

(***************************************************************************)
(* Bounds of the model.                                                    *)
(***************************************************************************)
\* the vertices of a finalized graph handed to peeling_order on its own
MaxV == 5

\* the members of a pedigree of the selfing family
MaxMembers == 5

\* the members of a pedigree of the family with cyclic parent references
MaxCyc == 3

\* the longest branch length of an input
MaxLen == 2

(***************************************************************************)
(* Small helpers.                                                          *)
(***************************************************************************)
Range(s) == {s[i] : i \in DOMAIN s}

Last(s) == s[Len(s)]

SetMin(S) == CHOOSE x \in S : \A y \in S : x <= y

RECURSIVE SortedSeq(_)
\* the elements of a set of integers in ascending order (a flat_set's storage)
SortedSeq(S) ==
    IF S = {} THEN <<>>
    ELSE LET m == SetMin(S) IN <<m>> \o SortedSeq(S \ {m})

(***************************************************************************)
(* The graph: pedigree_graph::Graph, a boost adjacency_list with vertex    *)
(* properties label, sex, ploidy, type and edge properties length, type.   *)
(* es is the edge list in insertion order; the out- and in-edge lists of a *)
(* vertex are its subsequences.                                            *)
(***************************************************************************)
EmptyGraph == [vs |-> <<>>, es |-> <<>>]

num_vertices(g) == Len(g.vs)

vertices(g) == 1..Len(g.vs)

in_edges(v, g) == SelectSeq(g.es, LAMBDA e : e.tgt = v)

out_edges(v, g) == SelectSeq(g.es, LAMBDA e : e.src = v)

in_degree(v, g) == Len(in_edges(v, g))

out_degree(v, g) == Len(out_edges(v, g))

degree(v, g) == in_degree(v, g) + out_degree(v, g)

add_vertex(vp, g) == [g EXCEPT !.vs = Append(@, vp)]

\* add_edge(u, v, {length, type}, g); germ and soma are history fields: the
\* sums of the unscaled lengths of the germline and of the somatic branches
\* the edge stands for
add_edge(u, v, ep, g) ==
    [g EXCEPT !.es = Append(@, [src |-> u, tgt |-> v, length |-> ep.length,
                                type |-> ep.type, germ |-> ep.germ, soma |-> ep.soma])]

remove_edge_if(pred(_), g) == [g EXCEPT !.es = SelectSeq(@, LAMBDA e : ~pred(e))]

clear_vertex(v, g) == [g EXCEPT !.es = SelectSeq(@, LAMBDA e : e.src # v /\ e.tgt # v)]

clear_in_edges(v, g) == [g EXCEPT !.es = SelectSeq(@, LAMBDA e : e.tgt # v)]

(***************************************************************************)
(* The Pedigree handed to Construct: a sequence of members.  An optional   *)
(* (dad, mom, dad_length, mom_length) is <<>> or <<value>>.  A somatic     *)
(* sample is what the Newick parser makes of its text: ok = FALSE for a    *)
(* text it rejects, else the tree's nodes, each with its label, its parent *)
(* (0 for the member's germline vertex, else an earlier node) and the      *)
(* length of the branch above it.                                          *)
(***************************************************************************)
has_value(o) == Len(o) > 0

value_or(o, d) == IF Len(o) > 0 THEN o[1] ELSE d

NumberOfMembers(pedigree) == Len(pedigree)

\* the position of the member of that name, a position past the last member
\* when there is none
LookupMemberPosition(pedigree, name) ==
    IF \E i \in DOMAIN pedigree : pedigree[i].name = name
    THEN SetMin({i \in DOMAIN pedigree : pedigree[i].name = name})
    ELSE Len(pedigree) + 1

\* the lower-case form of a tag (the tags of the model's inputs)
to_lower(a) ==
    CASE a = "Haploid" -> "haploid"
      [] a = "Diploid" -> "diploid"
      [] a = "Clone" -> "clone"
      [] a = "Founder" -> "founder"
      [] OTHER -> a

iequals(a, b) == to_lower(a) = to_lower(b)

has_tag(member, tag) == \E i \in DOMAIN member.tags : iequals(member.tags[i], tag)

HaploidTags == {"haploid", "gamete", "p=1", "ploidy=1"}

DiploidTags == {"diploid", "p=2", "ploidy=2"}

\* the lambda get_ploidy: the first tag that names a ploidy decides, then clone
get_ploidy(member) ==
    LET t == member.tags
        hits == {i \in DOMAIN t : to_lower(t[i]) \in HaploidTags \cup DiploidTags}
    IN IF hits # {}
       THEN (IF to_lower(t[SetMin(hits)]) \in HaploidTags THEN 1 ELSE 2)
       ELSE IF \E i \in DOMAIN t : to_lower(t[i]) = "clone" THEN 0
       ELSE 2

GermEdge(len) == [length |-> len, type |-> {"GERM_EDGE"}, germ |-> len, soma |-> 0]

SomaEdge(len) == [length |-> len, type |-> {"SOMA_EDGE"}, germ |-> 0, soma |-> len]

Threw(g, what) == [g |-> g, err |-> what]

Returned(g) == [g |-> g, err |-> "none"]

\* one iteration of the loop of add_edges_to_pedigree_graph, for vertex v.
\* oob is what a read of the sex property past the last vertex yields.
AddEdgesOf(pedigree, v, g, oob) ==
    LET member == pedigree[v]
        N == NumberOfMembers(pedigree)
        ploidy == g.vs[v].ploidy
        hasDad == has_value(member.dad)
        hasMom == has_value(member.mom)
        dad == IF hasDad THEN LookupMemberPosition(pedigree, member.dad[1]) ELSE 0
        mom == IF hasMom THEN LookupMemberPosition(pedigree, member.mom[1]) ELSE 0
        parent == IF hasDad THEN dad ELSE mom
        len == IF hasDad THEN value_or(member.dad_length, 1)
                         ELSE value_or(member.mom_length, 1)
        sex(p) == IF p <= N THEN g.vs[p].sex ELSE oob
    IN IF has_tag(member, "founder") \/ (~hasDad /\ ~hasMom) THEN Returned(g)
       ELSE IF ploidy = 0
       THEN IF hasDad /\ hasMom THEN Threw(g, "clone has two parents")
            ELSE IF parent > N THEN Threw(g, "clone parent is unknown")
            ELSE LET g1 == add_edge(parent, v, GermEdge(len), g)
                 IN Returned([g1 EXCEPT !.vs[v].ploidy = g.vs[parent].ploidy,
                                        !.vs[v].sex = g.vs[parent].sex])
       ELSE IF ploidy = 1
       THEN IF hasDad /\ hasMom THEN Threw(g, "gamete has two parents")
            ELSE IF sex(parent) = "segfault" THEN Threw(g, "segfault")
            ELSE IF hasDad /\ sex(parent) = "Female" THEN Threw(g, "father is female")
            ELSE IF ~hasDad /\ sex(parent) = "Male" THEN Threw(g, "mother is male")
            ELSE IF parent > N THEN Threw(g, "parent is unknown")
            ELSE Returned(add_edge(parent, v, GermEdge(len), g))
       ELSE IF ~hasDad THEN Threw(g, "father is unspecified")
            ELSE IF ~hasMom THEN Threw(g, "mother is unspecified")
            ELSE IF dad > N THEN Threw(g, "father is unknown")
            ELSE IF mom > N THEN Threw(g, "mother is unknown")
            ELSE IF g.vs[dad].sex = "Female" THEN Threw(g, "father is female")
            ELSE IF g.vs[mom].sex = "Male" THEN Threw(g, "mother is male")
            ELSE Returned(add_edge(mom, v, GermEdge(value_or(member.mom_length, 1)),
                            add_edge(dad, v, GermEdge(value_or(member.dad_length, 1)), g)))

RECURSIVE AddEdgesFrom(_, _, _, _)
AddEdgesFrom(pedigree, v, g, oob) ==
    IF v > Len(g.vs) THEN Returned(g)
    ELSE LET r == AddEdgesOf(pedigree, v, g, oob)
         IN IF r.err # "none" THEN r ELSE AddEdgesFrom(pedigree, v + 1, r.g, oob)

add_edges_to_pedigree_graph(pedigree, g, oob) == AddEdgesFrom(pedigree, 1, g, oob)

RECURSIVE AddNodes(_, _, _, _, _)
\* the vertices and edges of a parsed tree, node k onwards, below the anchor
AddNodes(nodes, k, base, anchor, g) ==
    IF k > Len(nodes) THEN g
    ELSE LET nd == nodes[k]
             from == IF nd.parent = 0 THEN anchor ELSE base + nd.parent
             g1 == add_vertex([label |-> <<nd.label>>, sex |-> g.vs[anchor].sex,
                               ploidy |-> g.vs[anchor].ploidy, type |-> "Somatic"], g)
         IN AddNodes(nodes, k + 1, base, anchor,
                     add_edge(from, base + k, SomaEdge(nd.length), g1))

\* mutk::detail::parse_newick(sample, graph, anchor, normalize) for
\* normalize = false
parse_newick(sample, g, anchor) ==
    IF sample.ok
    THEN [ok |-> TRUE, g |-> AddNodes(sample.nodes, 1, Len(g.vs), anchor, g)]
    ELSE [ok |-> FALSE, g |-> g]

RECURSIVE AddSomatic(_, _, _, _)
\* "Add somatic branches and nodes": sample k of member i onwards
AddSomatic(pedigree, i, k, g) ==
    IF i > NumberOfMembers(pedigree) THEN Returned(g)
    ELSE IF k > Len(pedigree[i].samples) THEN AddSomatic(pedigree, i + 1, 1, g)
    ELSE LET r == parse_newick(pedigree[i].samples[k], g, i)
         IN IF ~r.ok THEN Threw(r.g, "unable to parse somatic data")
            ELSE AddSomatic(pedigree, i, k + 1, r.g)

\* "Identify and mark somatic nodes that connect to known samples"
MarkKnown(g, known_samples) ==
    [g EXCEPT !.vs = [v \in DOMAIN g.vs |->
        IF g.vs[v].type = "Somatic" /\ Len(g.vs[v].label) = 1
                                     /\ g.vs[v].label[1] \in known_samples
        THEN [g.vs[v] EXCEPT !.type = "Sample"]
        ELSE g.vs[v]]]

construct_pedigree_graph(pedigree, known_samples, oob) ==
    LET g0 == [vs |-> [j \in 1..NumberOfMembers(pedigree) |->
                         [label |-> <<pedigree[j].name>>, sex |-> pedigree[j].sex,
                          ploidy |-> get_ploidy(pedigree[j]), type |-> "Germline"]],
               es |-> <<>>]
        r1 == add_edges_to_pedigree_graph(pedigree, g0, oob)
        r2 == AddSomatic(pedigree, 1, 1, r1.g)
    IN IF r1.err # "none" THEN r1
       ELSE IF r2.err # "none" THEN r2
       ELSE Returned(MarkKnown(r2.g, known_samples))

(***************************************************************************)
(* update_edge_lengths                                                     *)
(***************************************************************************)
\* every edge scaled by the germline rate
update_edge_lengths_one_rate(g, mu_germ, mu_soma) ==
    [g EXCEPT !.es = [i \in DOMAIN g.es |-> [g.es[i] EXCEPT !.length = @ * mu_germ]]]

update_edge_lengths(g, mu_germ, mu_soma) ==
    [g EXCEPT !.es = [i \in DOMAIN g.es |->
        IF "GERM_EDGE" \in g.es[i].type
        THEN [g.es[i] EXCEPT !.length = @ * mu_germ]
        ELSE [g.es[i] EXCEPT !.length = @ * mu_soma]]]

(***************************************************************************)
(* boost::topological_sort: a depth-first search from every white vertex   *)
(* in index order, out-edges in insertion order; a vertex is written when  *)
(* it is finished (reverse topological order) and a back edge throws       *)
(* not_a_dag.                                                              *)
(***************************************************************************)
RECURSIVE DfsVisit(_, _, _), DfsEdges(_, _, _, _)
DfsVisit(g, u, st) ==
    LET st1 == DfsEdges(g, out_edges(u, g), 1, [st EXCEPT !.color[u] = "gray"])
    IN IF st1.not_a_dag THEN st1
       ELSE [st1 EXCEPT !.color[u] = "black", !.order = Append(@, u)]

DfsEdges(g, oe, i, st) ==
    IF st.not_a_dag \/ i > Len(oe) THEN st
    ELSE LET t == oe[i].tgt
         IN IF st.color[t] = "gray" THEN [st EXCEPT !.not_a_dag = TRUE]
            ELSE IF st.color[t] = "white"
            THEN DfsEdges(g, oe, i + 1, DfsVisit(g, t, st))
            ELSE DfsEdges(g, oe, i + 1, st)

RECURSIVE DfsFrom(_, _, _)
DfsFrom(g, u, st) ==
    IF st.not_a_dag \/ u > num_vertices(g) THEN st
    ELSE DfsFrom(g, u + 1, IF st.color[u] = "white" THEN DfsVisit(g, u, st) ELSE st)

topological_sort(g) ==
    DfsFrom(g, 1, [color |-> [v \in vertices(g) |-> "white"], order |-> <<>>,
                   not_a_dag |-> FALSE])

\* boost::adaptors::reverse
reverse(s) == [i \in 1..Len(s) |-> s[Len(s) + 1 - i]]

(***************************************************************************)
(* simplify: the three passes                                              *)
(***************************************************************************)
\* Pass A without the cull
PassAKeepsLeaves(rev_topo, g) == g

RECURSIVE PassAFrom(_, _, _)
\* "Clear all leaf vertexes that are not samples, starting from the tips"
PassAFrom(order, i, g) ==
    IF i > Len(order) THEN g
    ELSE LET v == order[i]
         IN PassAFrom(order, i + 1,
                IF out_degree(v, g) = 0 /\ g.vs[v].type # "Sample"
                THEN clear_vertex(v, g) ELSE g)

PassA(rev_topo, g) == PassAFrom(rev_topo, 1, g)

\* Pass B without the unlinking
PassBKeepsFounders(rev_topo, g) == g

RECURSIVE PassBFrom(_, _, _)
\* "unlink founder nodes that are summed out anyways"
PassBFrom(order, i, g) ==
    IF i > Len(order) THEN g
    ELSE LET v == order[i]
             edge_range == in_edges(v, g)
             all == \A k \in DOMAIN edge_range : degree(edge_range[k].src, g) = 1
         IN PassBFrom(order, i + 1,
                IF g.vs[v].type = "Germline" /\ Len(edge_range) > 0 /\ all
                THEN clear_in_edges(v, g) ELSE g)

\* Pass B sweeping from the tips to the founders
PassBFromTips(rev_topo, g) == PassBFrom(rev_topo, 1, g)

PassB(rev_topo, g) == PassBFrom(reverse(rev_topo), 1, g)

RECURSIVE Bypass(_, _, _, _, _)
\* the inner loop of Pass C: one new edge grand -> child per in-edge of v
Bypass(in_edge_range, k, out_edge, child, g) ==
    IF k > Len(in_edge_range) THEN g
    ELSE LET e == in_edge_range[k]
         IN Bypass(in_edge_range, k + 1, out_edge, child,
                add_edge(e.src, child,
                         [length |-> out_edge.length + e.length,
                          type |-> out_edge.type \cup e.type,
                          germ |-> out_edge.germ + e.germ,
                          soma |-> out_edge.soma + e.soma], g))

RECURSIVE PassCFrom(_, _, _)
\* "bypass nodes that have one out_edge and their descendants"
PassCFrom(order, i, g) ==
    IF i > Len(order) THEN g
    ELSE LET v == order[i]
         IN IF in_degree(v, g) = 0 \/ out_degree(v, g) # 1
            THEN PassCFrom(order, i + 1, g)
            ELSE LET in_edge_range == in_edges(v, g)
                     out_edge == out_edges(v, g)[1]
                     child == out_edge.tgt
                 IN IF in_degree(child, g) + in_degree(v, g) - 1 > 2
                       \/ g.vs[child].ploidy # g.vs[v].ploidy
                    THEN PassCFrom(order, i + 1, g)
                    ELSE PassCFrom(order, i + 1,
                            clear_vertex(v, Bypass(in_edge_range, 1, out_edge, child, g)))

\* Pass C without the bypass
PassCKeepsAll(rev_topo, g) == g

PassC(rev_topo, g) == PassCFrom(reverse(rev_topo), 1, g)

(***************************************************************************)
(* prune                                                                   *)
(***************************************************************************)
is_germ(e) == "GERM_EDGE" \in e.type

RECURSIVE SexLoopNoClear(_, _, _, _, _)
\* the vertex loop without clear_vertex: the suppressed sex only gets ploidy 0
SexLoopNoClear(v, g, gone, hap, what) ==
    IF v > num_vertices(g) THEN Returned(g)
    ELSE LET sex == g.vs[v].sex
         IN IF sex = gone
            THEN SexLoopNoClear(v + 1, [g EXCEPT !.vs[v].ploidy = 0], gone, hap, what)
            ELSE IF sex = hap
            THEN SexLoopNoClear(v + 1, [g EXCEPT !.vs[v].ploidy = 1], gone, hap, what)
            ELSE IF sex \in {"Male", "Female"}
            THEN SexLoopNoClear(v + 1, g, gone, hap, what)
            ELSE IF out_degree(v, g) # 0 THEN Threw(g, what)
            ELSE SexLoopNoClear(v + 1, g, gone, hap, what)

RECURSIVE SexLoop(_, _, _, _, _)
\* the vertex loop of the sex-linked pruners: a vertex of the sex `gone` is
\* cleared and gets ploidy 0, one of the sex `hap` gets ploidy 1, one of
\* neither Male nor Female with an out-edge left throws
SexLoop(v, g, gone, hap, what) ==
    IF v > num_vertices(g) THEN Returned(g)
    ELSE LET sex == g.vs[v].sex
         IN IF sex = gone
            THEN SexLoop(v + 1, [clear_vertex(v, g) EXCEPT !.vs[v].ploidy = 0],
                         gone, hap, what)
            ELSE IF sex = hap
            THEN SexLoop(v + 1, [g EXCEPT !.vs[v].ploidy = 1], gone, hap, what)
            ELSE IF sex \in {"Male", "Female"}
            THEN SexLoop(v + 1, g, gone, hap, what)
            ELSE IF out_degree(v, g) # 0 THEN Threw(g, what)
            ELSE SexLoop(v + 1, g, gone, hap, what)

prune_autosomal(g) == Returned(g)

prune_ylinked(g) ==
    LET is_x(e) == is_germ(e) /\ (g.vs[e.src].sex = "Female" \/ g.vs[e.tgt].sex = "Female")
    IN SexLoop(1, remove_edge_if(is_x, g), "Female", "Male",
               "Y-linked inheritance requires every individual to have a known sex")

prune_xlinked(g) ==
    LET is_y(e) == is_germ(e) /\ g.vs[e.src].sex = "Male" /\ g.vs[e.tgt].sex = "Male"
    IN SexLoop(1, remove_edge_if(is_y, g), "nobody", "Male",
               "X-linked inheritance requires every individual to have a known sex")

prune_wlinked(g) ==
    LET is_z(e) == is_germ(e) /\ (g.vs[e.src].sex = "Male" \/ g.vs[e.tgt].sex = "Male")
    IN SexLoop(1, remove_edge_if(is_z, g), "Male", "Female",
               "W-linked inheritance requires every individual to have a known sex")

prune_zlinked(g) ==
    LET is_w(e) == is_germ(e) /\ g.vs[e.src].sex = "Female" /\ g.vs[e.tgt].sex = "Female"
    IN SexLoop(1, remove_edge_if(is_w, g), "nobody", "Female",
               "Z-linked inheritance requires every individual to have a known sex")

AllHaploid(g) == [g EXCEPT !.vs = [v \in DOMAIN g.vs |-> [g.vs[v] EXCEPT !.ploidy = 1]]]

prune_maternal(g) ==
    LET is_p(e) == is_germ(e) /\ g.vs[e.src].sex = "Male"
    IN Returned(AllHaploid(remove_edge_if(is_p, g)))

prune_paternal(g) ==
    LET is_m(e) == is_germ(e) /\ g.vs[e.src].sex = "Male"
    IN Returned(AllHaploid(remove_edge_if(is_m, g)))

prune(g, model) ==
    CASE model = "Autosomal" -> prune_autosomal(g)
      [] model = "YLinked" -> prune_ylinked(g)
      [] model = "XLinked" -> prune_xlinked(g)
      [] model = "WLinked" -> prune_wlinked(g)
      [] model = "ZLinked" -> prune_zlinked(g)
      [] model = "Maternal" -> prune_maternal(g)
      [] model = "Paternal" -> prune_paternal(g)
      [] OTHER -> Threw(g, "Selected inheritance model invalid or not implemented yet")

(***************************************************************************)
(* finalize                                                                *)
(***************************************************************************)
\* std::copy_if over topo_order.rbegin()..rend()
copy_if(order, pred(_)) == SelectSeq(reverse(order), pred)

\* the four bands copied from topo_order.begin()..end(), not reversed
VertexOrderUnreversed(input, topo_order) ==
    SelectSeq(topo_order, LAMBDA v : in_degree(v, input) = 0 /\ out_degree(v, input) > 0
                                     /\ input.vs[v].type = "Germline")
    \o SelectSeq(topo_order, LAMBDA v : in_degree(v, input) > 0
                                        /\ input.vs[v].type = "Germline")
    \o SelectSeq(topo_order, LAMBDA v : degree(v, input) > 0
                                        /\ input.vs[v].type = "Somatic")
    \o SelectSeq(topo_order, LAMBDA v : degree(v, input) > 0
                                        /\ input.vs[v].type = "Sample")

\* vertex_order: Founders, Germline, Somatic, Samples
VertexOrder(input, topo_order) ==
    copy_if(topo_order, LAMBDA v : in_degree(v, input) = 0 /\ out_degree(v, input) > 0
                                   /\ input.vs[v].type = "Germline")
    \o copy_if(topo_order, LAMBDA v : in_degree(v, input) > 0
                                      /\ input.vs[v].type = "Germline")
    \o copy_if(topo_order, LAMBDA v : degree(v, input) > 0
                                      /\ input.vs[v].type = "Somatic")
    \o copy_if(topo_order, LAMBDA v : degree(v, input) > 0
                                      /\ input.vs[v].type = "Sample")

\* map_in_to_out without the renumbering: a kept vertex keeps its input index
MapInToOutSameIndex(input, vertex_order) ==
    [v \in vertices(input) |->
        IF \E w \in DOMAIN vertex_order : vertex_order[w] = v THEN v ELSE 0]

\* map_in_to_out: the output index of an input vertex, 0 (the code's -1) for none
MapInToOut(input, vertex_order) ==
    [v \in vertices(input) |->
        IF \E w \in DOMAIN vertex_order : vertex_order[w] = v
        THEN CHOOSE w \in DOMAIN vertex_order : vertex_order[w] = v
        ELSE 0]

\* the suffix "/z" whatever the type
SuffixedZ(vp) == [vp EXCEPT !.label = Append(@, "/z")]

\* the label suffix of the last loop of finalize
Suffixed(vp) ==
    IF vp.type \in {"Founder", "Germline"} THEN [vp EXCEPT !.label = Append(@, "/z")]
    ELSE IF vp.type = "Somatic" THEN [vp EXCEPT !.label = Append(@, "/t")]
    ELSE vp

\* finalize(input) once its topological order is known
FinalizeWith(input, topo_order) ==
    LET vertex_order == VertexOrder(input, topo_order)
        map_in_to_out == MapInToOut(input, vertex_order)
    IN [vs |-> [w \in DOMAIN vertex_order |-> Suffixed(input.vs[vertex_order[w]])],
        es |-> [i \in DOMAIN input.es |->
                  [input.es[i] EXCEPT !.src = map_in_to_out[@],
                                      !.tgt = map_in_to_out[@]]]]

\* the assertion new_src != -1 && new_tgt != -1 of finalize
FinalizeAssertOk(input, topo_order) ==
    LET map_in_to_out == MapInToOut(input, VertexOrder(input, topo_order))
    IN \A i \in DOMAIN input.es :
          map_in_to_out[input.es[i].src] # 0 /\ map_in_to_out[input.es[i].tgt] # 0

(***************************************************************************)
(* RelationshipGraph::Construct, one action per stage.  pc names the stage *)
(* that has just ended: "start" (not called yet), "built", "scaled",       *)
(* "passA", "passB", "simplified", "pruned", "peel" (finalize has stored   *)
(* graph_ and peeling_order is entered), "elim", "junction", "done";       *)
(* "failed" when an exception left Construct, "crashed" when the process   *)
(* died.                                                                   *)
(***************************************************************************)
NoArgs == [pedigree |-> <<>>, known_samples |-> {}, model |-> "Autosomal",
           mu |-> 1, mu_somatic |-> 1]

\* what a read past the end of the vertex storage can yield
OutOfRangeReads == {"Unknown", "Male", "Female", "segfault"}

\* an exception unwinds Construct: the local graph is destroyed
Unwind(what) ==
    /\ pc' = IF what = "segfault" THEN "crashed" ELSE "failed"
    /\ fault' = what
    /\ graph' = EmptyGraph
    /\ rev_topo_order' = <<>>

\* inheritance_model_ = model; construct_pedigree_graph(...)
Construct ==
    /\ pc = "start"
    /\ inheritance_model_' = args.model
    /\ \E oob \in OutOfRangeReads :
          LET r == construct_pedigree_graph(args.pedigree, args.known_samples, oob)
          IN IF r.err = "none"
             THEN /\ graph' = r.g
                  /\ pc' = "built"
                  /\ UNCHANGED <<fault, rev_topo_order>>
             ELSE Unwind(r.err)
    /\ UNCHANGED <<args, graph_, peel_vars>>

Scale ==
    /\ pc = "built"
    /\ graph' = update_edge_lengths(graph, args.mu, args.mu_somatic)
    /\ pc' = "scaled"
    /\ UNCHANGED <<args, inheritance_model_, rev_topo_order, graph_, peel_vars, fault>>

\* simplify: topological_sort, then Pass A
SimplifyA ==
    /\ pc = "scaled"
    /\ LET t == topological_sort(graph)
       IN IF t.not_a_dag
          THEN Unwind("not_a_dag")
          ELSE /\ rev_topo_order' = t.order
               /\ graph' = PassA(t.order, graph)
               /\ pc' = "passA"
               /\ UNCHANGED fault
    /\ UNCHANGED <<args, inheritance_model_, graph_, peel_vars>>

SimplifyB ==
    /\ pc = "passA"
    /\ graph' = PassB(rev_topo_order, graph)
    /\ pc' = "passB"
    /\ UNCHANGED <<args, inheritance_model_, rev_topo_order, graph_, peel_vars, fault>>

SimplifyC ==
    /\ pc = "passB"
    /\ graph' = PassC(rev_topo_order, graph)
    /\ rev_topo_order' = <<>>
    /\ pc' = "simplified"
    /\ UNCHANGED <<args, inheritance_model_, graph_, peel_vars, fault>>

Prune ==
    /\ pc = "simplified"
    /\ LET r == prune(graph, inheritance_model_)
       IN IF r.err = "none"
          THEN /\ graph' = r.g
               /\ pc' = "pruned"
               /\ UNCHANGED <<fault, rev_topo_order>>
          ELSE Unwind(r.err)
    /\ UNCHANGED <<args, inheritance_model_, graph_, peel_vars>>

\* graph_ = finalize(graph); peeling_order(graph_) is entered
Finalize ==
    /\ pc = "pruned"
    /\ LET t == topological_sort(graph)
       IN IF t.not_a_dag
          THEN /\ Unwind("not_a_dag")
               /\ UNCHANGED graph_
          ELSE IF ~FinalizeAssertOk(graph, t.order)
          THEN /\ pc' = "crashed"
               /\ fault' = "finalize_assert"
               /\ UNCHANGED <<graph, rev_topo_order, graph_>>
          ELSE /\ graph_' = FinalizeWith(graph, t.order)
               /\ pc' = "peel"
               /\ UNCHANGED <<graph, rev_topo_order, fault>>
    /\ UNCHANGED <<args, inheritance_model_, peel_vars>>


(***************************************************************************)
(* peeling_order: dependencies, potentials, moralization.                  *)
(***************************************************************************)
\* depends[v]: the sources of v's in-edges, sorted (a parent met twice stays twice)
depends(g) ==
    [v \in vertices(g) |->
        LET ie == in_edges(v, g)
        IN SortSeq([i \in 1..Len(ie) |-> ie[i].src], LAMBDA a, b : a < b)]

\* what the loop over the vertices pushes for vertex v
PotentialsOf(v, g) ==
    (IF out_degree(v, g) = 0 THEN << <<v>> >> ELSE <<>>)
    \o (IF in_degree(v, g) = 0 THEN << <<v>> >> ELSE << <<v>> \o depends(g)[v] >>)

RECURSIVE PotentialsFrom(_, _)
PotentialsFrom(v, g) ==
    IF v > num_vertices(g) THEN <<>>
    ELSE PotentialsOf(v, g) \o PotentialsFrom(v + 1, g)

\* the vector starts with one empty potential per vertex
potentials(g) == [i \in 1..num_vertices(g) |-> <<>>] \o PotentialsFrom(1, g)

\* the members of potential p that the double loop pairs with x
PairedWith(x, p) ==
    {p[j] : j \in {j \in DOMAIN p : \E i \in DOMAIN p : i # j /\ p[i] = x}}

\* closures that join each vertex to its parents and children only
MoralizeWithoutCoParents(g) ==
    [v \in vertices(g) |->
        {g.es[i].src : i \in {i \in DOMAIN g.es : g.es[i].tgt = v}}
        \cup {g.es[i].tgt : i \in {i \in DOMAIN g.es : g.es[i].src = v}}]

\* "Identify Closures": every pair of positions of a potential becomes adjacent
Moralize(g) ==
    LET ps == potentials(g)
    IN [v \in vertices(g) |-> UNION {PairedWith(v, ps[i]) : i \in DOMAIN ps}]

\* the lambda fill_in_count: pairs of neighbors[v] that are not adjacent
fill_in_count(nb, v) ==
    Cardinality({p \in nb[v] \X nb[v] : p[1] < p[2] /\ p[2] \notin nb[p[1]]})

\* the sanity check inside fill_in_count, for every pair it visits
fill_in_assert_ok(nb, v) ==
    \A a \in nb[v] : \A b \in nb[v] : a < b => ((b \in nb[a]) <=> (a \in nb[b]))

(***************************************************************************)
(* The priority queue: a max-heap under record_cmp_t.                      *)
(***************************************************************************)
\* the variant of record_cmp_t that prefers the smaller index on equal keys
record_cmp_smaller_index(a, b) ==
    IF a.first = b.first THEN a.second > b.second ELSE a.first > b.first

\* record_cmp_t::operator(): TRUE when a comes after b in priority
record_cmp_t(a, b) ==
    IF a.first = b.first THEN a.second < b.second ELSE a.first > b.first

\* priority_queue.top(): the record no other record is ordered above
Top(q) == CHOOSE r \in q : \A o \in q \ {r} : record_cmp_t(o, r)

KeyOf(q, v) == (CHOOSE r \in q : r.second = v).first

(***************************************************************************)
(* One iteration of the elimination loop.                                  *)
(***************************************************************************)
\* The range-for over k = neighbors[v] erases v from k itself when v is its
\* own neighbor. The flat_set's storage is contiguous and the loop's end was
\* taken before: the element that followed v moves into v's slot and is
\* never visited, unless it was the last one (the loop reads it again from
\* the slot it left).
SkippedBySelfErase(nb, v) ==
    LET k == SortedSeq(nb[v])
        j == CHOOSE i \in DOMAIN k : k[i] = v
    IN IF v \in nb[v] /\ j + 2 <= Len(k) THEN {k[j + 1]} ELSE {}

\* "Update cliques": each visited neighbor a gets all of k inserted when
\* score > 0 (a itself included), then v erased
UpdateCliques(nb, v, score) ==
    LET k == nb[v]
        visited == k \ SkippedBySelfErase(nb, v)
    IN [a \in DOMAIN nb |->
          IF a \in visited
          THEN ((IF score > 0 THEN nb[a] \cup k ELSE nb[a]) \ {v})
          ELSE nb[a]]

\* "Update the priority queue": the neighbors whose handle is null
NullHandles(nb1, v, h1) == {a \in nb1[v] : a \notin h1}

\* the neighbors whose re-keying trips the sanity check
AssertTrips(nb1, v) == {a \in nb1[v] : ~fill_in_assert_ok(nb1, a)}

Rekey(q, nb1, v) ==
    {IF r.second \in nb1[v]
       THEN [first |-> fill_in_count(nb1, r.second), second |-> r.second]
       ELSE r : r \in q}

\* the loop body up to a normal end of the iteration
Elim ==
    /\ pc = "elim"
    /\ priority_queue # {}
    /\ LET top == Top(priority_queue)
           v == top.second
           nb1 == UpdateCliques(neighbors, v, top.first)
           h1 == handles \ {v}
           q1 == Rekey(priority_queue \ {top}, nb1, v)
       IN /\ NullHandles(nb1, v, h1) = {}
          /\ neighbors' = nb1
          /\ handles' = h1
          /\ priority_queue' = q1
          /\ elim_order' = Append(elim_order, v)
          /\ pc' = IF q1 = {} THEN "junction" ELSE "elim"
    /\ UNCHANGED <<pipe_vars, graph_, cliques, is_intersection_node, junction_tree, jt_done, fault>>

\* the loop body dereferences the null handle of an eliminated vertex
ElimNullHandle ==
    /\ pc = "elim"
    /\ priority_queue # {}
    /\ LET top == Top(priority_queue)
           v == top.second
           nb1 == UpdateCliques(neighbors, v, top.first)
           h1 == handles \ {v}
           bad == NullHandles(nb1, v, h1)
           trips == AssertTrips(nb1, v)
       IN /\ bad # {}
          /\ neighbors' = nb1
          /\ handles' = h1
          /\ priority_queue' = priority_queue \ {top}
          /\ elim_order' = Append(elim_order, v)
          /\ pc' = "crashed"
          /\ fault' = "null_handle"
    /\ UNCHANGED <<pipe_vars, graph_, cliques, is_intersection_node, junction_tree, jt_done>>

\* a build with assertions on: the sanity check of fill_in_count fails first
ElimAssert ==
    /\ pc = "elim"
    /\ priority_queue # {}
    /\ LET top == Top(priority_queue)
           v == top.second
           nb1 == UpdateCliques(neighbors, v, top.first)
           h1 == handles \ {v}
           bad == NullHandles(nb1, v, h1)
           trips == AssertTrips(nb1, v)
       IN /\ trips # {}
          /\ \A a \in bad : SetMin(trips) <= a
          /\ neighbors' = nb1
          /\ handles' = h1
          /\ priority_queue' = priority_queue \ {top}
          /\ elim_order' = Append(elim_order, v)
          /\ pc' = "crashed"
          /\ fault' = "assert"
    /\ UNCHANGED <<pipe_vars, graph_, cliques, is_intersection_node, junction_tree, jt_done>>

(***************************************************************************)
(* peeling_order up to the elimination loop.                               *)
(***************************************************************************)
PeelSetup ==
    /\ pc = "peel"
    /\ LET nb == Moralize(graph_)
       IN /\ neighbors' = nb
          /\ priority_queue' =
                {[first |-> fill_in_count(nb, v), second |-> v] : v \in vertices(graph_)}
          /\ handles' = vertices(graph_)
    /\ elim_order' = <<>>
    /\ cliques' = <<>>
    /\ is_intersection_node' = <<>>
    /\ junction_tree' = <<>>
    /\ jt_done' = 0
    /\ pc' = IF num_vertices(graph_) = 0 THEN "done" ELSE "elim"
    /\ UNCHANGED <<pipe_vars, graph_, fault>>

(***************************************************************************)
(* One iteration of the junction-tree loop (reverse elimination order).    *)
(***************************************************************************)
\* find that never meets an equal clique
FindCliqueNone(cl, S) == 0

\* boost::range::find(cliques, S): the first position holding S, 0 for end()
FindClique(cl, S) ==
    IF \E i \in DOMAIN cl : cl[i] = S
    THEN SetMin({i \in DOMAIN cl : cl[i] = S})
    ELSE 0

\* is_subset, with the empty separator matching nothing
is_subset_nonempty(x, S) == S # {} /\ S \subseteq x

\* is_subset with its arguments exchanged: the clique lies inside the separator
is_subset_swapped(x, S) == x \subseteq S

\* the lambda is_subset: boost::range::includes(x, neighbors[v])
is_subset(x, S) == S \subseteq x

\* min_element over the filtered cliques by size: the first smallest, 0 for end()
SmallestSuperset(cl, S) ==
    LET sup == {i \in DOMAIN cl : is_subset(cl[i], S)}
    IN IF sup = {} THEN 0
       ELSE SetMin({i \in sup :
                \A k \in sup : Cardinality(cl[i]) <= Cardinality(cl[k])})

Junction ==
    /\ pc = "junction"
    /\ jt_done < Len(elim_order)
    /\ LET v == elim_order[Len(elim_order) - jt_done]
           S == neighbors[v]
           j == Len(cliques) + 1
           pos == FindClique(cliques, S)
           pos1 == SmallestSuperset(cliques, S)
       IN IF pos # 0
          THEN /\ is_intersection_node' =
                    Append([is_intersection_node EXCEPT ![pos] = TRUE], FALSE)
               /\ junction_tree' = Append(junction_tree, <<pos, j>>)
               /\ cliques' = Append(cliques, S \cup {v})
          ELSE IF pos1 # 0
          THEN /\ is_intersection_node' = is_intersection_node \o <<TRUE, FALSE>>
               /\ junction_tree' = junction_tree \o << <<pos1, j>>, <<j, j + 1>> >>
               /\ cliques' = cliques \o <<S, S \cup {v}>>
          ELSE /\ is_intersection_node' = Append(is_intersection_node, FALSE)
               /\ junction_tree' = junction_tree
               /\ cliques' = Append(cliques, S \cup {v})
    /\ jt_done' = jt_done + 1
    /\ pc' = IF jt_done + 1 = Len(elim_order) THEN "done" ELSE "junction"
    /\ UNCHANGED <<pipe_vars, graph_, neighbors, priority_queue, handles, elim_order, fault>>

(***************************************************************************)
(* The specification of peeling_order on its own: it starts from a         *)
(* finalized graph.  Founders (in-degree 0) hold the first indices, every  *)
(* other vertex has one or two in-edges from vertices of smaller index     *)
(* (the same parent twice for a selfed child), no vertex is isolated.      *)
(***************************************************************************)
PeelNames == <<"v1", "v2", "v3", "v4", "v5", "v6", "v7", "v8", "v9">>

ParentChoices(v) ==
    {<<a>> : a \in 1..(v - 1)}
    \cup {p \in (1..(v - 1)) \X (1..(v - 1)) : p[1] <= p[2]}

RECURSIVE ParentSeqs(_, _)
\* parent lists of vertices 1..n, the first f of them founders
ParentSeqs(n, f) ==
    IF n <= f THEN {[i \in 1..n |-> <<>>]}
    ELSE {Append(s, c) : s \in ParentSeqs(n - 1, f), c \in ParentChoices(n)}

RECURSIVE EdgesOf(_, _)
EdgesOf(par, v) ==
    IF v > Len(par) THEN <<>>
    ELSE [i \in 1..Len(par[v]) |->
            [src |-> par[v][i], tgt |-> v, length |-> 1, type |-> {"GERM_EDGE"},
             germ |-> 1, soma |-> 0]]
         \o EdgesOf(par, v + 1)

PeelGraph(par) ==
    LET es == EdgesOf(par, 1)
        g0 == [vs |-> [v \in 1..Len(par) |-> 0], es |-> es]
    IN [vs |-> [v \in 1..Len(par) |->
                  [label |-> <<PeelNames[v]>>
                               \o (IF out_degree(v, g0) = 0 THEN <<>> ELSE <<"/z">>),
                   sex |-> "Unknown", ploidy |-> 2,
                   type |-> IF out_degree(v, g0) = 0 THEN "Sample" ELSE "Germline"]],
        es |-> es]

NoIsolated(g) == \A v \in vertices(g) : degree(v, g) > 0

PeelGraphs ==
    {g \in {PeelGraph(par) : par \in UNION {ParentSeqs(n, f) : n \in 1..MaxV, f \in 1..MaxV}} :
        NoIsolated(g)}

\* parent lists without a parent twice: vertices 1..n below the one founder 1
DistinctParentChoices(v) ==
    {<<a>> : a \in 1..(v - 1)}
    \cup {p \in (1..(v - 1)) \X (1..(v - 1)) : p[1] < p[2]}

RECURSIVE DistinctParentSeqs(_)
DistinctParentSeqs(n) ==
    IF n <= 1 THEN {<< <<>> >>}
    ELSE {Append(s, c) : s \in DistinctParentSeqs(n - 1), c \in DistinctParentChoices(n)}

\* the finalized graphs of MaxV + 1 vertices with one founder and no
\* parallel edges
WideGraphs ==
    {g \in {PeelGraph(par) : par \in DistinctParentSeqs(MaxV + 1)} : NoIsolated(g)}

InitPeel ==
    /\ pc = "peel"
    /\ args = NoArgs
    /\ inheritance_model_ = "Autosomal"
    /\ graph = EmptyGraph
    /\ rev_topo_order = <<>>
    /\ graph_ \in PeelGraphs \cup WideGraphs
    /\ neighbors = <<>>
    /\ priority_queue = {}
    /\ handles = {}
    /\ elim_order = <<>>
    /\ cliques = <<>>
    /\ is_intersection_node = <<>>
    /\ junction_tree = <<>>
    /\ jt_done = 0
    /\ fault = "none"

NextPeel == PeelSetup \/ Elim \/ ElimNullHandle \/ ElimAssert \/ Junction

SpecPeel == InitPeel /\ [][NextPeel]_vars

(***************************************************************************)
(* The calls of Construct the model runs: a RelationshipGraph that has     *)
(* just been constructed gets one call, its arguments drawn from six       *)
(* families of pedigrees.                                                  *)
(***************************************************************************)
Names == <<"A", "B", "C", "D", "E", "F", "G">>

LeafName == <<"As", "Bs", "Cs", "Ds", "Es", "Fs", "Gs">>

Leaf2Name == <<"Au", "Bu", "Cu", "Du", "Eu", "Fu", "Gu">>

TrunkName == <<"At", "Bt", "Ct", "Dt", "Et", "Ft", "Gt">>

Models == {"Autosomal", "YLinked", "XLinked", "WLinked", "ZLinked", "Maternal", "Paternal"}

Member(name, sex, dad, mom, tags, samples) ==
    [name |-> name, sex |-> sex, dad |-> dad, mom |-> mom,
     dad_length |-> <<>>, mom_length |-> <<>>, tags |-> tags, samples |-> samples]

\* the Newick text "label:len;"
Leaf(label, len) ==
    [ok |-> TRUE, nodes |-> <<[label |-> label, parent |-> 0, length |-> len]>>]

\* the Newick text "(l1:2,l2:1)trunk:1;"
Tree(trunk, l1, l2) ==
    [ok |-> TRUE,
     nodes |-> <<[label |-> trunk, parent |-> 0, length |-> 1],
                 [label |-> l1, parent |-> 1, length |-> 2],
                 [label |-> l2, parent |-> 1, length |-> 1]>>]

\* a text the parser rejects
BadSample == [ok |-> FALSE, nodes |-> <<>>]

Args(pedigree, known_samples, model, mu, mu_somatic) ==
    [pedigree |-> pedigree, known_samples |-> known_samples, model |-> model,
     mu |-> mu, mu_somatic |-> mu_somatic]

AllLeaves == Range(LeafName) \cup Range(Leaf2Name)

\* (1) up to MaxMembers diploid members of unknown sex, each a founder or the
\* child of two earlier members or of one earlier member twice (selfing);
\* the last member has one known sample
RECURSIVE SelfingParents(_)
SelfingParents(n) ==
    IF n = 0 THEN {<<>>}
    ELSE {Append(s, c) : s \in SelfingParents(n - 1),
                         c \in {<<>>} \cup {p \in (1..(n - 1)) \X (1..(n - 1)) : p[1] <= p[2]}}

SelfingPedigree(par) ==
    [v \in 1..Len(par) |->
        Member(Names[v], "Unknown",
               IF par[v] = <<>> THEN <<>> ELSE <<Names[par[v][1]]>>,
               IF par[v] = <<>> THEN <<>> ELSE <<Names[par[v][2]]>>,
               <<>>,
               IF v = Len(par) THEN <<Leaf(LeafName[v], 1)>> ELSE <<>>)]

SelfingCalls ==
    {Args(SelfingPedigree(par), AllLeaves, "Autosomal", 2, 3) :
        par \in UNION {SelfingParents(n) : n \in 1..MaxMembers}}

\* (2) up to MaxCyc members of unknown sex, each with one known sample, each
\* a founder, a diploid child of any two members (itself and later members
\* included) or a haploid child of any member or of the unknown name "Z"
CycChoices(n) ==
    {[tags |-> <<>>, dad |-> <<>>, mom |-> <<>>]}
    \cup {[tags |-> <<>>, dad |-> <<Names[p[1]]>>, mom |-> <<Names[p[2]]>>] :
             p \in {q \in (1..n) \X (1..n) : q[1] <= q[2]}}
    \cup {[tags |-> <<"haploid">>, dad |-> <<d>>, mom |-> <<>>] :
             d \in {Names[i] : i \in 1..n} \cup {"Z"}}

CycPedigrees(n) ==
    {[v \in 1..n |-> Member(Names[v], "Unknown", c[v].dad, c[v].mom, c[v].tags,
                            <<Leaf(LeafName[v], 1)>>)] : c \in [1..n -> CycChoices(n)]}

CycCalls ==
    {Args(ped, AllLeaves, "Autosomal", 2, 3) :
        ped \in UNION {CycPedigrees(n) : n \in 1..MaxCyc}}

\* (3) a founder A and at most one child B of A (haploid, clone or selfed
\* diploid, its branch of length 1 or MaxLen), each with no sample, one
\* leaf, two leaves, a tree of a trunk and two leaves, or a rejected text;
\* the known samples are the leaves, the trunks, both or none
SomaSamples(v) ==
    {<<>>, <<Leaf(LeafName[v], 1)>>, <<Leaf(LeafName[v], 1), Leaf(Leaf2Name[v], MaxLen)>>,
     <<Tree(TrunkName[v], LeafName[v], Leaf2Name[v])>>, <<BadSample>>}

SomaChildren ==
    {[Member("B", "Unknown", <<"A">>, mom, tags, sm) EXCEPT !.dad_length = len] :
        mom \in {<<>>}, tags \in {<<"haploid">>, <<"Clone">>}, sm \in SomaSamples(2),
        len \in {<<>>, <<MaxLen>>}}
    \cup {[Member("B", "Unknown", <<"A">>, <<"A">>, <<>>, sm) EXCEPT !.dad_length = len] :
        sm \in SomaSamples(2), len \in {<<>>, <<MaxLen>>}}

SomaPedigrees ==
    {<<Member("A", "Unknown", <<>>, <<>>, <<>>, sm)>> : sm \in SomaSamples(1)}
    \cup {<<Member("A", "Unknown", <<>>, <<>>, <<>>, sm), b>> :
             sm \in SomaSamples(1), b \in SomaChildren}

SomaCalls ==
    {Args(ped, known, "Autosomal", mu[1], mu[2]) :
        ped \in SomaPedigrees,
        known \in {{}, AllLeaves, Range(TrunkName), AllLeaves \cup Range(TrunkName)},
        mu \in {<<1, 1>>, <<2, 3>>}}

\* (4) the trio A, B, C (C the diploid child of A and B) with every sex of
\* each, a known sample below C and maybe below A, under every model
TrioPedigrees ==
    {<<Member("A", sx[1], <<>>, <<>>, <<>>, sa),
       Member("B", sx[2], <<>>, <<>>, <<>>, <<>>),
       Member("C", sx[3], <<"A">>, <<"B">>, <<>>, <<Leaf("Cs", 1)>>)>> :
        sx \in [1..3 -> {"Unknown", "Male", "Female"}],
        sa \in {<<>>, <<Leaf("As", 1)>>}}

TrioCalls ==
    {Args(ped, AllLeaves, model, 2, 3) : ped \in TrioPedigrees, model \in Models}

\* (5) three generations: the founder A with a tree or a leaf, its child B
\* with a leaf, B's child C with two leaves or a tree (B and C haploid or
\* clones); the trunks are not known samples
BandPedigrees ==
    {<<Member("A", "Unknown", <<>>, <<>>, <<>>, sa),
       Member("B", "Unknown", <<"A">>, <<>>, tb, <<Leaf("Bs", 1)>>),
       Member("C", "Unknown", <<"B">>, <<>>, tc, sc)>> :
        sa \in {<<Leaf("As", 1)>>, <<Tree("At", "As", "Au")>>},
        tb \in {<<"haploid">>, <<"clone">>},
        tc \in {<<"haploid">>, <<"clone">>},
        sc \in {<<Leaf("Cs", 1), Leaf("Cu", MaxLen)>>, <<Tree("Ct", "Cs", "Cu")>>}}

BandCalls == {Args(ped, AllLeaves, "Autosomal", 2, 3) : ped \in BandPedigrees}

\* (6) seven members: the diploid founder A, its haploid children B and C,
\* a haploid child D of B or C, a haploid child F of B, C or D, and the
\* diploid members E (parents among B, C, D) and G (parents among B..F),
\* each with one known sample
GameteParents(S) == {p \in S \X S : p[1] < p[2]}

GametePedigrees ==
    {<<Member("A", "Unknown", <<>>, <<>>, <<>>, <<>>),
       Member("B", "Unknown", <<"A">>, <<>>, <<"haploid">>, <<>>),
       Member("C", "Unknown", <<"A">>, <<>>, <<"haploid">>, <<>>),
       Member("D", "Unknown", <<Names[d]>>, <<>>, <<"haploid">>, <<>>),
       Member("E", "Unknown", <<Names[e[1]]>>, <<Names[e[2]]>>, <<>>, <<Leaf("Es", 1)>>),
       Member("F", "Unknown", <<Names[f]>>, <<>>, <<"haploid">>, <<>>),
       Member("G", "Unknown", <<Names[g[1]]>>, <<Names[g[2]]>>, <<>>, <<Leaf("Gs", 1)>>)>> :
        d \in 2..3, e \in GameteParents(2..4), f \in 2..4, g \in GameteParents(2..6)}

GameteCalls == {Args(ped, AllLeaves, "Autosomal", 2, 3) : ped \in GametePedigrees}

\* (7) two generations below the founders: A (with a known sample) and B
\* have the child C, C and the founder D have the child E with two known
\* samples; every sex the builder accepts for each, under the sex-linked
\* models
SexLinked == {"YLinked", "XLinked", "WLinked", "ZLinked"}

KinPedigrees ==
    {<<Member("A", sx[1], <<>>, <<>>, <<>>, <<Leaf("As", 1)>>),
       Member("B", sx[2], <<>>, <<>>, <<>>, <<>>),
       Member("C", sx[3], <<"A">>, <<"B">>, <<>>, <<>>),
       Member("D", sx[4], <<>>, <<>>, <<>>, <<>>),
       Member("E", sx[5], <<"C">>, <<"D">>, <<>>, <<Leaf("Es", 1), Leaf("Eu", 1)>>)>> :
        sx \in {s \in [1..5 -> {"Unknown", "Male", "Female"}] :
                   /\ s[1] # "Female" /\ s[3] # "Female"
                   /\ s[2] # "Male" /\ s[4] # "Male"}}

KinCalls == {Args(ped, AllLeaves, model, 2, 3) : ped \in KinPedigrees, model \in SexLinked}

\* (8) one founder with up to MaxTags of the tags below, in every order,
\* and one known sample
MaxTags == 2

TagPool == {"haploid", "Diploid", "clone", "p=1", "ploidy=2"}

TagSeqs == UNION {[1..n -> TagPool] : n \in 0..MaxTags}

TagCalls ==
    {Args(<<Member("A", "Unknown", <<>>, <<>>, tags, <<Leaf("As", 1)>>)>>,
          AllLeaves, "Autosomal", 2, 3) : tags \in TagSeqs}

\* (9) a founder A of known sex and two clones B and C, each the clone of
\* any of the three (a later member and itself included); C has a known
\* sample
ClonePedigrees ==
    {<<Member("A", sa, <<>>, <<>>, <<>>, <<>>),
       Member("B", "Unknown", <<pb>>, <<>>, <<"clone">>, <<>>),
       Member("C", "Unknown", <<>>, <<pc_>>, <<"Clone">>, <<Leaf("Cs", 1)>>)>> :
        sa \in {"Male", "Female"}, pb \in {"A", "B", "C"}, pc_ \in {"A", "B", "C"}}

CloneCalls == {Args(ped, AllLeaves, "Autosomal", 2, 3) : ped \in ClonePedigrees}

\* (10) scenario S1: the trio of a Male founder A, a Female founder B and
\* their diploid child C of any sex, no somatic samples, no known samples,
\* Autosomal
S1Pedigrees ==
    {<<Member("A", "Male", <<>>, <<>>, <<>>, <<>>),
       Member("B", "Female", <<>>, <<>>, <<>>, <<>>),
       Member("C", sc, <<"A">>, <<"B">>, <<>>, <<>>)>> : sc \in {"Unknown", "Male", "Female"}}

S1Calls == {Args(ped, {}, "Autosomal", mu[1], mu[2]) : ped \in S1Pedigrees, mu \in {<<1, 1>>, <<2, 3>>}}

\* (11) scenario S3: the clone chain of a diploid founder A, its clone B and
\* B's clone C, the branches of length 1 or MaxLen, with no sample or with
\* one known sample below C
S3Pedigrees ==
    {<<Member("A", sa, <<>>, <<>>, <<>>, <<>>),
       [Member("B", "Unknown", <<"A">>, <<>>, <<"clone">>, <<>>) EXCEPT !.dad_length = lb],
       [Member("C", "Unknown", <<"B">>, <<>>, <<"clone">>, sc) EXCEPT !.dad_length = lc]>> :
        sa \in {"Unknown", "Male", "Female"},
        lb \in {<<>>, <<MaxLen>>}, lc \in {<<>>, <<MaxLen>>},
        sc \in {<<>>, <<Leaf("Cs", 1)>>}}

S3Calls == {Args(ped, AllLeaves, "Autosomal", 2, 3) : ped \in S3Pedigrees}

\* (12) a founder A, its clone B (with or without a sample), a founder C and
\* a diploid D with a known sample whose father and mother are any of A, B
\* and C: D can be the child of a member and of that member's clone
BackcrossPedigrees ==
    {<<Member("A", "Unknown", <<>>, <<>>, <<>>, <<>>),
       Member("B", "Unknown", <<"A">>, <<>>, <<"clone">>, sb),
       Member("C", "Unknown", <<>>, <<>>, <<>>, <<>>),
       Member("D", "Unknown", <<d>>, <<m>>, <<>>, <<Leaf("Ds", 1)>>)>> :
        sb \in {<<>>, <<Leaf("Bs", 1)>>}, d \in {"A", "B", "C"}, m \in {"A", "B", "C"}}

BackcrossCalls == {Args(ped, AllLeaves, "Autosomal", 2, 3) : ped \in BackcrossPedigrees}

Calls ==
    SelfingCalls \cup CycCalls \cup SomaCalls \cup TrioCalls \cup BandCalls \cup GameteCalls
        \cup KinCalls \cup TagCalls \cup CloneCalls \cup S1Calls \cup S3Calls
        \cup BackcrossCalls

Init ==
    /\ pc = "start"
    /\ args \in Calls
    /\ inheritance_model_ = "Autosomal"
    /\ graph = EmptyGraph
    /\ rev_topo_order = <<>>
    /\ graph_ = EmptyGraph
    /\ neighbors = <<>>
    /\ priority_queue = {}
    /\ handles = {}
    /\ elim_order = <<>>
    /\ cliques = <<>>
    /\ is_intersection_node = <<>>
    /\ junction_tree = <<>>
    /\ jt_done = 0
    /\ fault = "none"

Next ==
    \/ Construct \/ Scale \/ SimplifyA \/ SimplifyB \/ SimplifyC \/ Prune \/ Finalize
    \/ PeelSetup \/ Elim \/ ElimNullHandle \/ ElimAssert \/ Junction

Spec == Init /\ [][Next]_vars


(***************************************************************************)
(* Properties of peeling_order.                                            *)
(***************************************************************************)
\* an iteration of the elimination loop popped a vertex in this step
Popped == pc = "elim" /\ Len(elim_order') = Len(elim_order) + 1

Queued == {r.second : r \in priority_queue}

MinKey == SetMin({r.first : r \in priority_queue})

\* the junction-tree nodes whose clique holds x
NodesOf(x) == {i \in DOMAIN cliques : x \in cliques[i]}

RECURSIVE Grow(_, _, _)
\* the nodes of `nodes` reachable from R along tree edges inside `nodes`
Grow(R, nodes, E) ==
    LET R2 == R \cup {n \in nodes : \E i \in DOMAIN E :
                         \/ (E[i][1] \in R /\ E[i][2] = n)
                         \/ (E[i][2] \in R /\ E[i][1] = n)}
    IN IF R2 = R THEN R ELSE Grow(R2, nodes, E)

Connected(nodes, E) == nodes = {} \/ Grow({SetMin(nodes)}, nodes, E) = nodes

\* C1: the elimination loop ends with an empty queue and elim_order is a
\* permutation of the vertices (no vertex twice while it runs, the process
\* does not die inside it).
C1_ElimOrderPermutation ==
    /\ ~(pc = "crashed" /\ fault \in {"null_handle", "assert"})
    /\ pc \in {"elim", "junction", "done"} =>
          /\ \A i \in DOMAIN elim_order : \A k \in DOMAIN elim_order :
                 elim_order[i] = elim_order[k] => i = k
          /\ Range(elim_order) \cup Queued = vertices(graph_)
    /\ pc \in {"junction", "done"} =>
          /\ priority_queue = {}
          /\ Len(elim_order) = num_vertices(graph_)

\* C2: running intersection: for every vertex x the junction-tree nodes
\* (clique and intersection nodes) whose clique holds x are connected by tree
\* edges among themselves, at every point of the junction-tree loop and at
\* its end, where every vertex is in some node.
C2_RunningIntersection ==
    pc \in {"junction", "done"} =>
        /\ \A x \in vertices(graph_) : Connected(NodesOf(x), junction_tree)
        /\ pc = "done" => \A x \in vertices(graph_) : NodesOf(x) # {}

\* C2 witness: a finished junction tree in which a vertex lies in at least
\* three nodes, one of them an inserted intersection node.
C2_Witness ==
    /\ pc = "done"
    /\ Len(cliques) > num_vertices(graph_)
    /\ \E x \in vertices(graph_) :
          /\ Cardinality(NodesOf(x)) >= 3
          /\ \E i \in NodesOf(x) : is_intersection_node[i]

\* C3: the junction tree is one connected acyclic graph at every point of the
\* loop (#edges = #nodes - 1 and connected), so only the first iteration adds
\* a node without an edge.
C3_JunctionTreeIsTree ==
    (pc \in {"junction", "done"} /\ Len(cliques) >= 1) =>
        /\ Len(junction_tree) = Len(cliques) - 1
        /\ Connected(DOMAIN cliques, junction_tree)
        /\ Len(is_intersection_node) = Len(cliques)

\* C3 witness: a finished tree over a disconnected moral graph: an
\* intersection node with the empty separator joins two components.
C3_Witness ==
    /\ pc = "done"
    /\ \E i \in DOMAIN cliques : cliques[i] = {} /\ is_intersection_node[i]
    /\ Len(cliques) >= 3

\* C4 as claimed: on equal smallest keys the smallest vertex index is popped.
C4_TieBreakSmallestIndex ==
    [][Popped =>
         LET v == Last(elim_order')
         IN \A r \in priority_queue : r.first = MinKey => v <= r.second]_vars

\* C4 as the code has it: the popped record has the smallest key, and among
\* the records with that key the largest vertex index.
C4_TieBreakLargestIndex ==
    [][Popped =>
         LET v == Last(elim_order')
         IN /\ KeyOf(priority_queue, v) = MinKey
            /\ \A r \in priority_queue : r.first = MinKey => r.second <= v]_vars

\* C4 witness: a pop has happened and two queued vertices share the
\* smallest key before the next one.
C4_Witness ==
    /\ pc = "elim"
    /\ Len(elim_order) >= 1
    /\ Cardinality({r \in priority_queue : r.first = MinKey}) >= 2

\* C5: at every pop the popped vertex has the minimum fill-in, computed on
\* the current neighbor sets, among the vertices not yet eliminated.
C5_PopsMinimumFillIn ==
    [][Popped =>
         LET v == Last(elim_order')
         IN \A w \in Queued :
                fill_in_count(neighbors, v) <= fill_in_count(neighbors, w)]_vars

(***************************************************************************)
(* Properties of the stages of Construct.                                  *)
(***************************************************************************)
\* finalize has stored graph_
Finalized == pc \in {"peel", "elim", "junction", "done"}

\* the band of a vertex of a finalized graph: 1 Founder, 2 Germline,
\* 3 Somatic, 4 Sample, 0 for a vertex that fits none
BandOf(g, w) ==
    CASE g.vs[w].type = "Germline" /\ in_degree(w, g) = 0 /\ out_degree(w, g) > 0 -> 1
      [] g.vs[w].type = "Germline" /\ in_degree(w, g) > 0 -> 2
      [] g.vs[w].type = "Somatic" -> 3
      [] g.vs[w].type = "Sample" -> 4
      [] OTHER -> 0

RECURSIVE ReachFrom(_, _)
\* the vertices reachable from the set R along edges, R included
ReachFrom(g, R) ==
    LET R2 == R \cup {g.es[i].tgt : i \in {k \in DOMAIN g.es : g.es[k].src \in R}}
    IN IF R2 = R THEN R ELSE ReachFrom(g, R2)

Acyclic(g) ==
    \A i \in DOMAIN g.es : g.es[i].src \notin ReachFrom(g, {g.es[i].tgt})

\* C6: the indices of a finalized graph run through the bands Founder,
\* Germline, Somatic, Sample in this order, every vertex is in one of them,
\* and an edge inside a band goes from the smaller to the larger index.
C6_BandsInOrder ==
    Finalized =>
        /\ \A w \in vertices(graph_) : BandOf(graph_, w) # 0
        /\ \A u \in vertices(graph_) : \A w \in vertices(graph_) :
              u < w => BandOf(graph_, u) <= BandOf(graph_, w)
        /\ \A i \in DOMAIN graph_.es :
              BandOf(graph_, graph_.es[i].src) = BandOf(graph_, graph_.es[i].tgt)
                  => graph_.es[i].src < graph_.es[i].tgt

\* C6 witness: a finalized graph with all four bands and an edge inside the
\* Germline band.
C6_Witness ==
    /\ Finalized
    /\ \A b \in 1..4 : \E w \in vertices(graph_) : BandOf(graph_, w) = b
    /\ \E i \in DOMAIN graph_.es :
          BandOf(graph_, graph_.es[i].src) = 2 /\ BandOf(graph_, graph_.es[i].tgt) = 2

\* the vertices of the graph handed to finalize that it keeps
Kept(g) == {v \in vertices(g) : degree(v, g) > 0}

\* C7: every vertex of the finalized graph carries the label of a kept input
\* vertex of its type (all else equal), followed by "/z" once for Germline
\* (Founder and Germline band), by "/t" once for Somatic, by nothing for
\* Sample; input labels are the names the builder gave.
C7_LabelSuffixes ==
    Finalized =>
        /\ Len(graph_.vs) = Cardinality(Kept(graph))
        /\ \A w \in vertices(graph_) :
              \E v \in Kept(graph) :
                  /\ Len(graph.vs[v].label) = 1
                  /\ graph_.vs[w].type = graph.vs[v].type
                  /\ graph_.vs[w].sex = graph.vs[v].sex
                  /\ graph_.vs[w].ploidy = graph.vs[v].ploidy
                  /\ graph_.vs[w].label =
                        graph.vs[v].label \o
                           (CASE BandOf(graph_, w) \in {1, 2} -> <<"/z">>
                              [] BandOf(graph_, w) = 3 -> <<"/t">>
                              [] OTHER -> <<>>)

\* C7 witness: a finalized graph with a founder A/z, a somatic trunk At/t and
\* the sample As.
C7_Witness ==
    /\ Finalized
    /\ \E w \in vertices(graph_) : graph_.vs[w].label = <<"A", "/z">>
    /\ \E w \in vertices(graph_) : graph_.vs[w].label = <<"At", "/t">>
    /\ \E w \in vertices(graph_) : graph_.vs[w].label = <<"As">> /\ BandOf(graph_, w) = 4

\* C8: every Sample vertex of the finalized graph has in-degree 1 and
\* out-degree 0.
C8_SampleDegrees ==
    Finalized =>
        \A w \in vertices(graph_) :
            graph_.vs[w].type = "Sample" =>
                in_degree(w, graph_) = 1 /\ out_degree(w, graph_) = 0

\* C9: the graph is acyclic after the builder and after every later stage.
C9_AcyclicAfterEveryStage ==
    /\ pc \in {"built", "scaled", "passA", "passB", "simplified", "pruned"} => Acyclic(graph)
    /\ Finalized => Acyclic(graph_)

\* C10 as claimed: the length of a finalized edge is the sum of the lengths
\* of the branches it stands for, times mu_germ when GERM_EDGE is set, else
\* times mu_soma.
C10_OneRatePerEdge ==
    Finalized =>
        \A i \in DOMAIN graph_.es :
            LET e == graph_.es[i]
            IN e.length = (IF "GERM_EDGE" \in e.type THEN args.mu ELSE args.mu_somatic)
                             * (e.germ + e.soma)

\* C10 as the code has it: the length is mu_germ times the lengths of the
\* germline branches plus mu_soma times the lengths of the somatic
\* branches the edge stands for; GERM_EDGE (SOMA_EDGE) is set exactly when
\* there is a germline (somatic) branch among them.
C10_RatePerBranch ==
    Finalized =>
        \A i \in DOMAIN graph_.es :
            LET e == graph_.es[i]
            IN /\ e.length = args.mu * e.germ + args.mu_somatic * e.soma
               /\ ("GERM_EDGE" \in e.type) = (e.germ > 0)
               /\ ("SOMA_EDGE" \in e.type) = (e.soma > 0)
               /\ e.germ + e.soma > 0

\* C10 witness: a finalized graph, mu_germ # mu_soma, with an edge Pass C
\* made of a germline edge and a somatic edge.
C10_Witness ==
    /\ Finalized
    /\ args.mu # args.mu_somatic
    /\ \E i \in DOMAIN graph_.es :
          /\ graph_.es[i].type = {"GERM_EDGE", "SOMA_EDGE"}
          /\ graph_.es[i].germ > 0 /\ graph_.es[i].soma > 0

(***************************************************************************)
(* Properties of the pruner.                                               *)
(***************************************************************************)
Other(sex) == IF sex = "Male" THEN "Female" ELSE "Male"

\* after a Y-linked (gone = Female) or W-linked (gone = Male) pruning: no
\* germline edge touches the suppressed sex, its vertices are isolated with
\* ploidy 0, the other sex has ploidy 1
SuppressedSex(g, gone) ==
    /\ \A i \in DOMAIN g.es :
          is_germ(g.es[i]) => g.vs[g.es[i].src].sex # gone /\ g.vs[g.es[i].tgt].sex # gone
    /\ \A v \in vertices(g) :
          /\ g.vs[v].sex = gone => degree(v, g) = 0 /\ g.vs[v].ploidy = 0
          /\ g.vs[v].sex = Other(gone) => g.vs[v].ploidy = 1

\* after an X-linked (hap = Male) or Z-linked (hap = Female) pruning: no
\* germline edge joins two vertices of the hemizygous sex, which has ploidy 1
HemizygousSex(g, hap) ==
    /\ \A i \in DOMAIN g.es :
          is_germ(g.es[i]) => ~(g.vs[g.es[i].src].sex = hap /\ g.vs[g.es[i].tgt].sex = hap)
    /\ \A v \in vertices(g) : g.vs[v].sex = hap => g.vs[v].ploidy = 1

\* C11: pruning soundness: after a sex-linked pruner has returned normally
\* the graph obeys the model's table (Y, W: the suppressed sex is gone; X, Z:
\* no germline edge inside the hemizygous sex, which is haploid).
C11_PruningSoundness ==
    pc = "pruned" =>
        /\ inheritance_model_ = "YLinked" => SuppressedSex(graph, "Female")
        /\ inheritance_model_ = "WLinked" => SuppressedSex(graph, "Male")
        /\ inheritance_model_ = "XLinked" => HemizygousSex(graph, "Male")
        /\ inheritance_model_ = "ZLinked" => HemizygousSex(graph, "Female")

\* C11 witness: a Y-linked pruning has returned a graph in which a Female
\* member that had a sample is suppressed and a Male vertex keeps an edge.
C11_Witness ==
    /\ pc = "pruned"
    /\ inheritance_model_ = "YLinked"
    /\ \E m \in 1..Len(args.pedigree) :
          /\ args.pedigree[m].sex = "Female"
          /\ args.pedigree[m].samples # <<>>
          /\ graph.vs[m].ploidy = 0
    /\ \E v \in vertices(graph) :
          graph.vs[v].sex = "Male" /\ graph.vs[v].ploidy = 1 /\ degree(v, graph) > 0

\* the edges of g without those pred holds of, in their order
EdgesWithout(g, pred(_)) == SelectSeq(g.es, LAMBDA e : ~pred(e))

\* the step of Construct that prunes under the given model and returns
PrunedUnder(model) ==
    pc = "simplified" /\ inheritance_model_ = model /\ pc' = "pruned"

\* C12: under the Paternal model the pruner deletes exactly the germline
\* edges whose source is Female, keeps every germline edge whose source is
\* Male, and leaves every vertex with ploidy 1.
C12_PaternalDeletesFemaleSource ==
    [][PrunedUnder("Paternal") =>
          /\ graph'.es = EdgesWithout(graph,
                             LAMBDA e : is_germ(e) /\ graph.vs[e.src].sex = "Female")
          /\ \A v \in vertices(graph') : graph'.vs[v].ploidy = 1]_vars

\* the graph has a vertex with an out-edge whose sex is neither Male nor Female
UnresolvedParent(g) ==
    \E v \in vertices(g) : out_degree(v, g) > 0 /\ g.vs[v].sex \notin {"Male", "Female"}

\* C13: under a sex-linked model the pruner fails with InvalidSex whenever
\* the graph it is handed has a vertex of unresolved sex with an out-edge.
C13_UnresolvedSexRaised ==
    [][(pc = "simplified" /\ inheritance_model_ \in SexLinked /\ UnresolvedParent(graph))
          => (pc' = "failed" /\ fault' # "none")]_vars

(***************************************************************************)
(* Properties of Construct as a whole.                                     *)
(***************************************************************************)
\* C14: when Construct fails in a stage, the object is as it was before the
\* call: graph_ and inheritance_model_ have the values they had at the call.
C14_FailureLeavesObject ==
    pc = "failed" => graph_ = EmptyGraph /\ inheritance_model_ = "Autosomal"

(***************************************************************************)
(* Properties of the builder.                                              *)
(***************************************************************************)
\* the ploidy the set of tags gives by priority: haploid tags, then diploid
\* tags, then clone, else 2
PloidyByPriority(tags) ==
    LET lower == {to_lower(tags[i]) : i \in DOMAIN tags}
    IN IF lower \cap HaploidTags # {} THEN 1
       ELSE IF lower \cap DiploidTags # {} THEN 2
       ELSE IF "clone" \in lower THEN 0
       ELSE 2

\* the builder leaves the initial ploidy of member m in place: m is skipped
\* as a founder or is not an unresolved clone
KeepsInitialPloidy(member) ==
    \/ ~has_value(member.dad) /\ ~has_value(member.mom)
    \/ has_tag(member, "founder")
    \/ PloidyByPriority(member.tags) # 0

\* C15: the initial ploidy of a member depends only on the set of its tags,
\* by priority: haploid tags give 1, else diploid tags give 2, else clone
\* gives 0, else 2.
C15_PloidyByTagSet ==
    pc = "built" =>
        \A m \in 1..Len(args.pedigree) :
            KeepsInitialPloidy(args.pedigree[m]) =>
                graph.vs[m].ploidy = PloidyByPriority(args.pedigree[m].tags)

\* the builder's errors for a parent name LookupMemberPosition does not resolve
UnknownParentFaults ==
    {"clone parent is unknown", "parent is unknown", "father is unknown", "mother is unknown"}

\* the first defect the builder meets in the pedigree is a parent that is
\* not a member (judged with a harmless read past the vertices)
MeetsUnknownParent(a) ==
    construct_pedigree_graph(a.pedigree, a.known_samples, "Unknown").err \in UnknownParentFaults

\* C17: a member naming a parent that is not in the pedigree makes the
\* builder fail with PedigreeInvalid (parent unknown) before any vertex
\* property at the out-of-range index is read.
C17_UnknownParentRejectedFirst ==
    [][(pc = "start" /\ MeetsUnknownParent(args))
          => (pc' = "failed" /\ fault' \in UnknownParentFaults)]_vars

\* a clone with a parent: tag clone, no tag that names a ploidy, exactly one
\* of dad and mom
IsCloneWithParent(member) ==
    /\ has_tag(member, "clone")
    /\ ~has_tag(member, "founder")
    /\ get_ploidy(member) = 0
    /\ has_value(member.dad) # has_value(member.mom)

CloneParent(pedigree, member) ==
    LookupMemberPosition(pedigree, IF has_value(member.dad) THEN member.dad[1] ELSE member.mom[1])

\* C16: after the builder every clone with a parent has the ploidy and the
\* sex its parent vertex ends with, and its ploidy is not 0.
C16_CloneCopiesParent ==
    pc = "built" =>
        \A m \in 1..Len(args.pedigree) :
            IsCloneWithParent(args.pedigree[m]) =>
                LET p == CloneParent(args.pedigree, args.pedigree[m])
                IN /\ graph.vs[m].ploidy = graph.vs[p].ploidy
                   /\ graph.vs[m].sex = graph.vs[p].sex
                   /\ graph.vs[m].ploidy # 0

(***************************************************************************)
(* Properties of finalize: graph is its input, graph_ its output.          *)
(***************************************************************************)
\* output vertex w is input vertex v: the same name, sex, ploidy and type
\* (the names of the vertices of an input graph are distinct)
SameVertex(v, w) ==
    /\ graph_.vs[w].label[1] = graph.vs[v].label[1]
    /\ graph_.vs[w].sex = graph.vs[v].sex
    /\ graph_.vs[w].ploidy = graph.vs[v].ploidy
    /\ graph_.vs[w].type = graph.vs[v].type

\* an edge of g by the names of its ends and its properties
EdgeKey(g, e) ==
    <<g.vs[e.src].label[1], g.vs[e.tgt].label[1], e.length, e.type, e.germ, e.soma>>

EdgeCount(g, key) ==
    Cardinality({i \in DOMAIN g.es :
                    /\ g.es[i].src \in vertices(g) /\ g.es[i].tgt \in vertices(g)
                    /\ EdgeKey(g, g.es[i]) = key})

\* C18: finalize maps its input one-to-one onto its output: the output
\* vertices are the input vertices of degree > 0, each once with its sex,
\* ploidy and type; every input edge is there once between the mapped ends
\* with its length and type, and no other edge; the assertion on the mapped
\* ends never fails.
C18_FinalizeOneToOne ==
    /\ fault # "finalize_assert"
    /\ Finalized =>
          /\ Len(graph_.vs) = Cardinality(Kept(graph))
          /\ \A v \in Kept(graph) :
                Cardinality({w \in vertices(graph_) : SameVertex(v, w)}) = 1
          /\ \A w \in vertices(graph_) :
                Cardinality({v \in Kept(graph) : SameVertex(v, w)}) = 1
          /\ Len(graph_.es) = Len(graph.es)
          /\ \A i \in DOMAIN graph_.es :
                graph_.es[i].src \in vertices(graph_) /\ graph_.es[i].tgt \in vertices(graph_)
          /\ \A i \in DOMAIN graph.es :
                EdgeCount(graph_, EdgeKey(graph, graph.es[i]))
                    = EdgeCount(graph, EdgeKey(graph, graph.es[i]))

\* C18 witness: finalize has dropped an isolated vertex, renumbered a kept
\* one and copied two parallel edges.
C18_Witness ==
    /\ Finalized
    /\ Cardinality(Kept(graph)) < num_vertices(graph)
    /\ \E v \in Kept(graph) : \E w \in vertices(graph_) : SameVertex(v, w) /\ v # w
    /\ \E i \in DOMAIN graph_.es : \E j \in DOMAIN graph_.es :
          i # j /\ graph_.es[i] = graph_.es[j]

(***************************************************************************)
(* Properties of the finalized graph.                                      *)
(***************************************************************************)
\* C19: under every model, a vertex of the finalized graph without an
\* out-edge is a Sample: no germline or somatic leaf survives the pipeline.
C19_LeavesAreSamples ==
    Finalized =>
        \A w \in vertices(graph_) :
            out_degree(w, graph_) = 0 => graph_.vs[w].type = "Sample"

(***************************************************************************)
(* Scenarios.                                                              *)
(***************************************************************************)
\* the vertex of the finalized graph with the given label, 0 for none
Labelled(label) ==
    IF \E w \in vertices(graph_) : graph_.vs[w].label = label
    THEN CHOOSE w \in vertices(graph_) : graph_.vs[w].label = label
    ELSE 0

\* C20 as claimed: scenario S1 ends with the finalized graph of the three
\* vertices A, B (Founder band) and C (Germline band) and the two germline
\* edges A->C and B->C of length 1 * mu_germ.
C20_S1ThreeVertices ==
    (Finalized /\ args \in S1Calls) =>
        LET a == Labelled(<<"A", "/z">>)
            b == Labelled(<<"B", "/z">>)
            c == Labelled(<<"C", "/z">>)
        IN /\ num_vertices(graph_) = 3
           /\ a # 0 /\ b # 0 /\ c # 0
           /\ BandOf(graph_, a) = 1 /\ BandOf(graph_, b) = 1 /\ BandOf(graph_, c) = 2
           /\ Len(graph_.es) = 2
           /\ \A p \in {a, b} : \E i \in DOMAIN graph_.es :
                 /\ graph_.es[i].src = p /\ graph_.es[i].tgt = c
                 /\ graph_.es[i].type = {"GERM_EDGE"}
                 /\ graph_.es[i].length = 1 * args.mu

\* C20 as the code has it: in scenario S1 Construct succeeds with an empty
\* finalized graph: Pass A clears the leaf C, which is no Sample, and then
\* A and B, so no edge is left from Pass A on and finalize keeps no vertex.
C20_S1EmptyGraph ==
    args \in S1Calls =>
        /\ pc \notin {"failed", "crashed"}
        /\ pc \in {"built", "scaled"} =>
              /\ Len(graph.es) = 2
              /\ \A i \in DOMAIN graph.es :
                    /\ graph.es[i].tgt = 3
                    /\ graph.es[i].length = (IF pc = "built" THEN 1 ELSE args.mu)
        /\ pc \in {"passA", "passB", "simplified", "pruned"} => graph.es = <<>>
        /\ Finalized => graph_ = EmptyGraph /\ elim_order = <<>> /\ junction_tree = <<>>

\* C20 witness: Construct has returned in scenario S1.
C20_Witness ==
    /\ args \in S1Calls
    /\ pc = "done"
    /\ num_vertices(graph) = 3
    /\ num_vertices(graph_) = 0

\* the branch lengths of scenario S3
S3Length(m) == value_or(args.pedigree[m].dad_length, 1)

\* C21 as claimed: in scenario S3 the simplified graph has the single
\* germline edge A->C of length (len(A,B) + len(B,C)) * mu_germ, B has no
\* edges, C has ploidy 2 and the sex of A.
C21_S3SingleEdge ==
    (args \in S3Calls /\ pc = "simplified") =>
        /\ Cardinality({i \in DOMAIN graph.es : is_germ(graph.es[i])}) = 1
        /\ \E i \in DOMAIN graph.es :
              /\ graph.es[i].src = 1 /\ graph.es[i].tgt = 3
              /\ is_germ(graph.es[i])
              /\ graph.es[i].length = (S3Length(2) + S3Length(3)) * args.mu
        /\ degree(2, graph) = 0
        /\ graph.vs[3].ploidy = 2
        /\ graph.vs[3].sex = graph.vs[1].sex

\* C21 as the code has it: in scenario S3 the builder makes the edges A->B
\* and B->C, the scaler multiplies them by mu_germ, and the simplified graph
\* has no germline edge: A and B have no edges, and the only edge left is
\* the somatic edge from C to its sample, if there is one; C has ploidy 2
\* and the sex of A.
C21_S3NoGermlineEdge ==
    args \in S3Calls =>
        /\ pc \notin {"failed", "crashed"}
        /\ pc = "scaled" =>
              \E i \in DOMAIN graph.es : \E j \in DOMAIN graph.es :
                  /\ graph.es[i].src = 1 /\ graph.es[i].tgt = 2
                  /\ graph.es[i].length = S3Length(2) * args.mu
                  /\ graph.es[j].src = 2 /\ graph.es[j].tgt = 3
                  /\ graph.es[j].length = S3Length(3) * args.mu
        /\ pc = "simplified" =>
              /\ \A i \in DOMAIN graph.es :
                    /\ ~is_germ(graph.es[i])
                    /\ graph.es[i].src = 3
                    /\ graph.vs[graph.es[i].tgt].type = "Sample"
              /\ Len(graph.es) = Len(args.pedigree[3].samples)
              /\ degree(1, graph) = 0 /\ degree(2, graph) = 0
              /\ graph.vs[3].ploidy = 2
              /\ graph.vs[3].sex = graph.vs[1].sex

\* C21 witness: simplify has ended in scenario S3 with a sample below C and
\* a branch longer than 1.
C21_Witness ==
    /\ args \in S3Calls
    /\ pc = "simplified"
    /\ Len(graph.es) = 1
    /\ S3Length(2) + S3Length(3) > 2
    /\ graph.vs[1].sex = "Female"

\* scenario S6: the finalized chain F1 -> G1 -> G2 -> G3 -> S (vertices 1..5)
ChainS6 == PeelGraph(<< <<>>, <<1>>, <<2>>, <<3>>, <<4>> >>)

\* the junction tree is a path: a tree in which no node has three tree edges
JunctionPath ==
    /\ Len(junction_tree) = Len(cliques) - 1
    /\ Connected(DOMAIN cliques, junction_tree)
    /\ \A n \in DOMAIN cliques :
          Cardinality({i \in DOMAIN junction_tree :
                          junction_tree[i][1] = n \/ junction_tree[i][2] = n}) <= 2

Marked(b) == Cardinality({n \in DOMAIN is_intersection_node : is_intersection_node[n] = b})

\* the elimination order runs from the leaf S inward
S6Inward ==
    \A i \in DOMAIN elim_order : elim_order[i] = 6 - i

\* C22 as claimed: for the chain of scenario S6 the order is S, G3, G2, G1,
\* F1 and the junction tree is a path of exactly 4 nodes that are not
\* intersection nodes and exactly 3 that are.
C22_S6ThreeSeparators ==
    graph_ = ChainS6 =>
        /\ pc \in {"elim", "junction", "done"} => S6Inward
        /\ pc = "done" =>
              /\ Len(elim_order) = 5
              /\ JunctionPath
              /\ Marked(FALSE) = 4
              /\ Marked(TRUE) = 3

\* C22 as the code has it: the order is S, G3, G2, G1, F1 and the junction
\* tree is a path of 8 nodes: {F1}, {F1,G1}, {G1}, {G1,G2}, {G2}, {G2,G3},
\* {G3}, {G3,S}; the 4 two-vertex cliques are not intersection nodes, the 3
\* inserted separators {G1}, {G2}, {G3} are, and so is the first node {F1},
\* the clique of the vertex eliminated last, marked when G1's separator {F1}
\* is found equal to it.
C22_S6FourMarked ==
    graph_ = ChainS6 =>
        /\ pc \in {"elim", "junction", "done"} => S6Inward
        /\ pc = "done" =>
              /\ Len(elim_order) = 5
              /\ JunctionPath
              /\ cliques = <<{1}, {1, 2}, {2}, {2, 3}, {3}, {3, 4}, {4}, {4, 5}>>
              /\ is_intersection_node = <<TRUE, FALSE, TRUE, FALSE, TRUE, FALSE, TRUE, FALSE>>
              /\ Marked(FALSE) = 4
              /\ Marked(TRUE) = 4

\* C22 witness: peeling_order has finished on the chain of scenario S6.
C22_Witness ==
    /\ graph_ = ChainS6
    /\ pc = "done"
    /\ elim_order = <<5, 4, 3, 2, 1>>

(***************************************************************************)
(* Properties of the neighbor sets.                                        *)
(***************************************************************************)
\* no two edges of g have the same source and the same target
NoParallelEdges(g) ==
    \A i \in DOMAIN g.es : \A j \in DOMAIN g.es :
        (g.es[i].src = g.es[j].src /\ g.es[i].tgt = g.es[j].tgt) => i = j

\* C23: at every point of the elimination loop the neighbor sets of the
\* vertices not yet eliminated are symmetric, and the sanity check inside
\* fill_in_count never fails.
C23_NeighborSymmetry ==
    /\ fault # "assert"
    /\ pc = "elim" =>
          \A a \in Queued : \A b \in Queued :
              (a \in neighbors[b]) <=> (b \in neighbors[a])

ParentsOf(g, v) == {g.es[i].src : i \in {i \in DOMAIN g.es : g.es[i].tgt = v}}

ChildrenOf(g, v) == {g.es[i].tgt : i \in {i \in DOMAIN g.es : g.es[i].src = v}}

CoParentsOf(g, v) == UNION {ParentsOf(g, c) : c \in ChildrenOf(g, v)}

MoralNeighbors(g, v) ==
    (ParentsOf(g, v) \cup ChildrenOf(g, v) \cup CoParentsOf(g, v)) \ {v}

BeforeElimination == pc = "elim" /\ elim_order = <<>>

\* C24: for every finalized graph without parallel edges, the neighbor sets
\* built before elimination are those of the moral graph: the neighbors of v are
\* its parents, its children and the other parents of its children, v excluded
\* (a leaf is adjacent to each of its parents).
C24_MoralGraph ==
    (BeforeElimination /\ NoParallelEdges(graph_)) =>
        \A v \in vertices(graph_) : neighbors[v] = MoralNeighbors(graph_, v)

\* a graph without parallel edges where some vertex has a co-parent that is
\* neither its parent nor its child, and a leaf with two parents
C24_Witness ==
    /\ BeforeElimination
    /\ NoParallelEdges(graph_)
    /\ \E v \in vertices(graph_) :
           CoParentsOf(graph_, v) \ ({v} \cup ParentsOf(graph_, v) \cup ChildrenOf(graph_, v)) # {}
    /\ \E v \in vertices(graph_) :
           /\ out_degree(v, graph_) = 0
           /\ Cardinality(ParentsOf(graph_, v)) = 2
           /\ ParentsOf(graph_, v) \subseteq neighbors[v]

\* the test of Pass B: a Germline vertex with in-edges whose sources all have
\* degree 1
Unlinkable(v, g) ==
    /\ g.vs[v].type = "Germline"
    /\ in_degree(v, g) >= 1
    /\ \A k \in DOMAIN in_edges(v, g) : degree(in_edges(v, g)[k].src, g) = 1

\* C25: Pass B reaches a fixpoint in its single sweep: immediately after
\* Pass B no Germline vertex with in-degree >= 1 has all its in-edge sources
\* of degree 1.
C25_PassBFixpoint ==
    pc = "passB" => \A v \in vertices(graph) : ~Unlinkable(v, graph)

\* C25 witness: Pass B has ended; a member that names a parent has lost its
\* in-edges and kept a child that is a Germline vertex with in-edges of its own
C25_Witness ==
    /\ pc = "passB"
    /\ \E v \in DOMAIN args.pedigree : \E k \in DOMAIN out_edges(v, graph) :
           /\ Len(args.pedigree[v].dad) + Len(args.pedigree[v].mom) > 0
           /\ graph.vs[v].type = "Germline"
           /\ in_degree(v, graph) = 0
           /\ graph.vs[out_edges(v, graph)[k].tgt].type = "Germline"
           /\ in_degree(out_edges(v, graph)[k].tgt, graph) = 2

\* the test of Pass C: a vertex with in-edges and one out-edge whose child has
\* the same ploidy and would keep at most two in-edges
Bypassable(v, g) ==
    /\ in_degree(v, g) >= 1
    /\ out_degree(v, g) = 1
    /\ LET child == out_edges(v, g)[1].tgt
       IN /\ in_degree(child, g) - 1 + in_degree(v, g) <= 2
          /\ g.vs[child].ploidy = g.vs[v].ploidy

\* C26: Pass C reaches a fixpoint in its single sweep: after Pass C no vertex
\* has in-degree >= 1, out-degree 1 and a child c of equal ploidy with
\* in-degree(c) - 1 + in-degree(v) <= 2.
C26_PassCFixpoint ==
    pc = "simplified" => \A v \in vertices(graph) : ~Bypassable(v, graph)

\* C26 witness: Pass C has ended and left an edge that joins two or more
\* edges of the pedigree
C26_Witness ==
    /\ pc = "simplified"
    /\ \E i \in DOMAIN graph.es : graph.es[i].germ + graph.es[i].soma >= 2

\* C27: no vertex is a member of its own neighbor set: for every finalized
\* graph without parallel edges, v is not in neighbors[v] after moralization
\* and after every iteration of the elimination loop, the iterations that
\* eliminate a vertex with fill-in > 0 included.
C27_NoSelfNeighbor ==
    (NoParallelEdges(graph_) /\ pc = "elim") =>
        \A v \in vertices(graph_) : v \notin neighbors[v]

\* the vertex the last iteration of the elimination loop eliminated
LastEliminated == elim_order[Len(elim_order)]

\* C28: after each iteration of the elimination loop that eliminates v, the
\* former neighbors of v are pairwise adjacent and none of them still lists
\* v, so the frozen neighbors[v] with v is a clique of the filled graph; and
\* a queued key is never 0 while the vertex's current fill-in is > 0.
C28_EliminationMakesClique ==
    (pc = "elim" /\ elim_order # <<>>) =>
        /\ \A a \in neighbors[LastEliminated] \ {LastEliminated} :
              /\ LastEliminated \notin neighbors[a]
              /\ \A b \in neighbors[LastEliminated] \ {LastEliminated, a} :
                    b \in neighbors[a]
        /\ \A r \in priority_queue :
              r.first = 0 => fill_in_count(neighbors, r.second) = 0

\* C29: the graph never contains two edges with the same source and the
\* same target: not after the builder (also when a diploid member names the
\* same individual as father and mother), not after Pass C, and not in the
\* finalized graph, so depends[v] never lists a parent twice.
C29_NoParallelEdges ==
    /\ NoParallelEdges(graph)
    /\ NoParallelEdges(graph_)
    /\ \A v \in vertices(graph_) :
          \A i \in DOMAIN depends(graph_)[v] : \A j \in DOMAIN depends(graph_)[v] :
              depends(graph_)[v][i] = depends(graph_)[v][j] => i = j

====
